---- MODULE Spec2Model ----
(***************************************************************************)
(* Model of src-ui/src/app/utils/popper-options.ts.                        *)
(*                                                                         *)
(* popperOptionsWithAutoOffset reads window.innerWidth and, below the      *)
(* 400px threshold, pushes an "offset" modifier onto config.modifiers.     *)
(* The modifier's offset callback is a closure over the const windowWidth  *)
(* and the const dropdownElement (the element, not its offsetLeft); the    *)
(* positioning library invokes it later, at each layout pass.              *)
(*                                                                         *)
(* JavaScript numbers are modelled as records so that NaN and undefined    *)
(* take part in the arithmetic the way they do in the language.            *)
(***************************************************************************)
EXTENDS Integers, Sequences, FiniteSets, TLC

(* ---------------------------- bounds ---------------------------------- *)

\* entries the calculator may append to one config before the model stops
MaxCalls == 2

(* ------------------------ program constants --------------------------- *)

\* popper-options.ts:7   if (windowWidth < 400)
Threshold == 400
\* popper-options.ts:14  windowWidth - 10 - (...)
Margin == 10

(* ------------------------- JavaScript values -------------------------- *)

Num(n) == [t |-> "number", n |-> n]
NaN == [t |-> "NaN", n |-> 0]
Undefined == [t |-> "undefined", n |-> 0]

\* ToNumber as applied by the binary + and - of line 14
ToNumber(v) == IF v.t = "undefined" THEN NaN ELSE v

JsAdd(a, b) ==
    LET x == ToNumber(a)
        y == ToNumber(b)
    IN  IF x.t = "NaN" \/ y.t = "NaN" THEN NaN ELSE Num(x.n + y.n)

JsSub(a, b) ==
    LET x == ToNumber(a)
        y == ToNumber(b)
    IN  IF x.t = "NaN" \/ y.t = "NaN" THEN NaN ELSE Num(x.n - y.n)

\* the < of line 15: any comparison with NaN is false
JsLess(a, b) ==
    LET x == ToNumber(a)
        y == ToNumber(b)
    IN  x.t = "number" /\ y.t = "number" /\ x.n < y.n

(* --------------------------- input domains ---------------------------- *)

\* values of window.innerWidth (300 is the width the tests use)
Widths == {300, 399, 400, 1024}

\* the DOM elements a host may hold in _nativeElement
ElemIds == {"el"}

\* values of HTMLElement.offsetLeft; the test double is a jest.fn() whose
\* offsetLeft is whatever was assigned to it, or nothing
OffsetLefts == {Undefined, NaN, Num(100), Num(150)}

\* the hosts the function is called on: this['_nativeElement'] is an
\* element or is missing
Contexts == {[_nativeElement |-> "el"], [_nativeElement |-> "undefined"]}

\* the configuration objects, by identity
ConfigIds == {"c1"}

\* config.modifiers as the caller built it: empty (as in the tests) or
\* already holding another modifier
OtherModifier == [name |-> "flip"]
InitialModifiers == {<<>>, <<OtherModifier>>}

\* the layout states the positioning library passes to the callback
PopperWidths == {190, 250}
\* reference and placement vary together: the callback reads neither
Surroundings ==
    {[reference |-> "r1", placement |-> "bottom"],
     [reference |-> "r2", placement |-> "top"]}
LayoutStates ==
    {[popper |-> [width |-> Num(p)], reference |-> s.reference,
      placement |-> s.placement] : p \in PopperWidths, s \in Surroundings}

(* ------------------------------- state -------------------------------- *)

VARIABLES
    innerWidth,   \* window.innerWidth
    offsetLeft,   \* offsetLeft of each element
    modifiers,    \* config.modifiers of each configuration object
    original,     \* config.modifiers of each object as first created
    narrowCalls,  \* per config: the widths of the calls made below 400
    lastCall,     \* the latest calculator call: arguments, environment, result
    lastInv       \* the latest invocation of an offset callback

vars == <<innerWidth, offsetLeft, modifiers, original, narrowCalls,
          lastCall, lastInv>>

NoCall ==
    [config |-> "none", innerWidth |-> 0, offsetLeft |-> Undefined,
     before |-> <<>>, result |-> "none"]

NoInv ==
    [fn |-> <<"none", 0>>, state |-> "none", offsetLeft |-> Undefined,
     outcome |-> "none", value |-> <<Undefined, Undefined>>]

Init ==
    /\ innerWidth \in Widths
    /\ offsetLeft \in [ElemIds -> OffsetLefts]
    /\ modifiers \in [ConfigIds -> InitialModifiers]
    /\ original = modifiers
    /\ narrowCalls = [c \in ConfigIds |-> <<>>]
    /\ lastCall = NoCall
    /\ lastInv = NoInv

(* ----------------------------- the code ------------------------------- *)

\* variant: the threshold test written with <=
IsNarrowInclusive(windowWidth) == windowWidth <= Threshold

\* line 7: the threshold test
IsNarrow(windowWidth) == windowWidth < Threshold

\* lines 9-18: the entry pushed; the closure is its captured environment
OffsetModifier(windowWidth, dropdownElement) ==
    [name |-> "offset",
     options |-> [offset |-> [windowWidth |-> windowWidth,
                              dropdownElement |-> dropdownElement]]]

\* variant: the entry is put in front (unshift)
Unshift(list, entry) == <<entry>> \o list

\* variant: an entry of the same name is not added twice
PushUnlessPresent(list, entry) ==
    IF \E k \in 1..Len(list) : list[k].name = entry.name
    THEN list ELSE Append(list, entry)

\* line 9: Array.prototype.push
Push(list, entry) == Append(list, entry)

\* variant: a copy of the config is returned
ReturnCopy(config) == "copy"

\* line 20: return config
ReturnValue(config) == config

\* variant: offsetLeft is read once, in the calculator, and the callback
\* uses that value
ReadOffsetLeftAtCall(dropdownElement) == lastCall.offsetLeft

\* line 14: dropdownElement.offsetLeft, read when the callback runs
ReadOffsetLeft(dropdownElement) == offsetLeft[dropdownElement]

\* variant: the 10px margin is left out
RightOverflowNoMargin(closure, layoutState) ==
    JsSub(Num(closure.windowWidth),
          JsAdd(ReadOffsetLeft(closure.dropdownElement),
                layoutState.popper.width))

\* variant: window.innerWidth is read again when the callback runs
RightOverflowLiveWidth(closure, layoutState) ==
    JsSub(JsSub(Num(innerWidth), Num(Margin)),
          JsAdd(ReadOffsetLeft(closure.dropdownElement),
                layoutState.popper.width))

\* lines 13-14: const rightOverflow
RightOverflow(closure, layoutState) ==
    JsSub(JsSub(Num(closure.windowWidth), Num(Margin)),
          JsAdd(ReadOffsetLeft(closure.dropdownElement),
                layoutState.popper.width))

\* variant: Math.min(rightOverflow, 0), which hands NaN through
ClampMathMin(rightOverflow) ==
    IF ToNumber(rightOverflow).t = "NaN" THEN NaN
    ELSE IF rightOverflow.n < 0 THEN rightOverflow ELSE Num(0)

\* line 15: rightOverflow < 0 ? rightOverflow : 0
Clamp(rightOverflow) ==
    IF JsLess(rightOverflow, Num(0)) THEN rightOverflow ELSE Num(0)

\* lines 12-16: the body of the offset callback, for a closure and a layout
\* state.  Reading a property of undefined throws a TypeError.
Offset(closure, layoutState) ==
    IF closure.dropdownElement = "undefined"
    THEN [outcome |-> "TypeError", value |-> <<Undefined, Undefined>>]
    ELSE LET rightOverflow == RightOverflow(closure, layoutState)
         IN  [outcome |-> "returned",
              value |-> <<Clamp(rightOverflow), Num(0)>>]

\* lines 3-21
popperOptionsWithAutoOffset(this, config) ==
    /\ Len(modifiers[config]) < Len(original[config]) + MaxCalls
    /\ LET windowWidth == innerWidth
           dropdownElement == this["_nativeElement"]
       IN  /\ modifiers' =
                 IF IsNarrow(windowWidth)
                 THEN [modifiers EXCEPT ![config] =
                          Push(@, OffsetModifier(windowWidth, dropdownElement))]
                 ELSE modifiers
           /\ lastCall' =
                 [config |-> config,
                  innerWidth |-> innerWidth,
                  offsetLeft |-> IF this["_nativeElement"] \in ElemIds
                                 THEN offsetLeft[this["_nativeElement"]]
                                 ELSE Undefined,
                  before |-> modifiers[config],
                  result |-> ReturnValue(config)]
    /\ narrowCalls' =
          IF innerWidth < 400
          THEN [narrowCalls EXCEPT ![config] = Append(@, innerWidth)]
          ELSE narrowCalls
    /\ UNCHANGED <<innerWidth, offsetLeft, original, lastInv>>

\* the positioning library runs modifiers[config][i].options.offset(state)
InvokeOffset(config, i, layoutState) ==
    /\ i \in 1..Len(modifiers[config])
    /\ modifiers[config][i].name = "offset"
    /\ LET closure == modifiers[config][i].options.offset
           r == Offset(closure, layoutState)
       IN  lastInv' =
              [fn |-> <<config, i>>, state |-> layoutState,
               offsetLeft |-> IF closure.dropdownElement \in ElemIds
                              THEN offsetLeft[closure.dropdownElement]
                              ELSE Undefined,
               outcome |-> r.outcome, value |-> r.value]
    /\ UNCHANGED <<innerWidth, offsetLeft, modifiers, original,
                   narrowCalls, lastCall>>

\* the window is resized
Resize(w) ==
    /\ w # innerWidth
    /\ innerWidth' = w
    /\ UNCHANGED <<offsetLeft, modifiers, original, narrowCalls,
                   lastCall, lastInv>>

\* the page is laid out again and an element's offsetLeft changes
Relayout(e, v) ==
    /\ v # offsetLeft[e]
    /\ offsetLeft' = [offsetLeft EXCEPT ![e] = v]
    /\ UNCHANGED <<innerWidth, modifiers, original, narrowCalls,
                   lastCall, lastInv>>

Next ==
    \/ \E this \in Contexts, config \in ConfigIds :
          popperOptionsWithAutoOffset(this, config)
    \/ \E config \in ConfigIds, i \in 1..(MaxCalls + 1), ls \in LayoutStates :
          InvokeOffset(config, i, ls)
    \/ \E w \in Widths : Resize(w)
    \/ \E e \in ElemIds, v \in OffsetLefts : Relayout(e, v)

Spec == Init /\ [][Next]_vars

(* ------------------------ notions of the claims ----------------------- *)

\* [min(0, (W - 10) - (L + P)), 0] on integers
Min(a, b) == IF a <= b THEN a ELSE b
Expected(W, L, P) == <<Num(Min(0, (W - 10) - (L + P))), Num(0)>>

IsNumber(v) == v.t = "number"
Called == lastCall.config # "none"
Invoked == lastInv.outcome # "none"

\* the closure behind a callback, and the width of the call that pushed it
ClosureOf(fn) == modifiers[fn[1]][fn[2]].options.offset
CallWidth(fn) == narrowCalls[fn[1]][fn[2] - Len(original[fn[1]])]

\* the callback pushed by the latest calculator call
PushedByLastCall == <<lastCall.config, Len(lastCall.before) + 1>>

\* a step in which a callback ran and returned something new
InvokeStep == lastInv' # lastInv

(* ------------------------------ claims -------------------------------- *)

\* C1: after a calculator call made at a viewport width >= 400 (400
\* included), config.modifiers is what it was before the call: same length,
\* same entries, same order.
C1_WidePassthrough ==
    (Called /\ lastCall.innerWidth >= 400) =>
        modifiers[lastCall.config] = lastCall.before

C1_Witness ==
    /\ Called
    /\ lastCall.innerWidth = 400
    /\ Len(lastCall.before) = 2
    /\ modifiers[lastCall.config] = lastCall.before

\* C2: after a calculator call made at a viewport width < 400 on a config
\* with n modifiers, the config has n + 1 modifiers: the n original ones,
\* unmodified and in order, then one entry named "offset".
C2_NarrowAppendsOne ==
    (Called /\ lastCall.innerWidth < 400) =>
        LET now == modifiers[lastCall.config]
            n == Len(lastCall.before)
        IN  /\ Len(now) = n + 1
            /\ SubSeq(now, 1, n) = lastCall.before
            /\ now[n + 1].name = "offset"

C2_Witness ==
    /\ Called
    /\ lastCall.innerWidth = 399
    /\ lastCall.before = <<OtherModifier>>
    /\ Len(modifiers[lastCall.config]) = 2
    /\ modifiers[lastCall.config][2].name = "offset"

\* C3: a callback pushed at width W < 400, run with popper.width = P while
\* the element's offsetLeft is the integer L, returns
\* [min(0, (W - 10) - (L + P)), 0] for every placement and reference: x is
\* never positive, y is 0, and (W - 10) - (L + P) = 0 gives [0, 0].
C3_OffsetFormula ==
    (Invoked /\ lastInv.outcome = "returned" /\ IsNumber(lastInv.offsetLeft)) =>
        LET W == ClosureOf(lastInv.fn).windowWidth
            L == lastInv.offsetLeft.n
            P == lastInv.state.popper.width.n
        IN  /\ W < 400
            /\ lastInv.value = Expected(W, L, P)
            /\ IsNumber(lastInv.value[1]) /\ lastInv.value[1].n <= 0
            /\ lastInv.value[2] = Num(0)
            /\ ((W - 10) - (L + P) = 0 => lastInv.value = <<Num(0), Num(0)>>)

C3_Witness ==
    /\ lastInv.outcome = "returned"
    /\ ClosureOf(lastInv.fn).windowWidth = 399
    /\ lastInv.offsetLeft = Num(150)
    /\ lastInv.state = [popper |-> [width |-> Num(250)], reference |-> "r2",
                        placement |-> "top"]
    /\ lastInv.value = <<Num(-11), Num(0)>>

\* C4 as stated: the callback pushed by the latest call returns the value
\* computed from the offsetLeft the element had when the calculator ran.
C4_UsesOffsetAtCallTime ==
    (/\ Called /\ lastCall.innerWidth < 400
     /\ lastInv.fn = PushedByLastCall
     /\ lastInv.outcome = "returned"
     /\ IsNumber(lastCall.offsetLeft)) =>
        lastInv.value = Expected(lastCall.innerWidth, lastCall.offsetLeft.n,
                                 lastInv.state.popper.width.n)

\* C4 amended: the callback keeps the element, not its offsetLeft; every
\* run reads offsetLeft anew and returns the value computed from the
\* offsetLeft the element has at that moment.
C4_UsesOffsetAtLayoutTime ==
    [][(/\ InvokeStep
        /\ lastInv'.outcome = "returned"
        /\ IsNumber(offsetLeft[ClosureOf(lastInv'.fn).dropdownElement])) =>
          lastInv'.value =
             Expected(ClosureOf(lastInv'.fn).windowWidth,
                      offsetLeft[ClosureOf(lastInv'.fn).dropdownElement].n,
                      lastInv'.state.popper.width.n)]_vars

C4_Witness ==
    /\ Called /\ lastCall.innerWidth = 300
    /\ lastInv.fn = PushedByLastCall
    /\ lastInv.outcome = "returned"
    /\ lastCall.offsetLeft = Num(100)
    /\ lastInv.offsetLeft = Num(150)
    /\ lastInv.state.popper.width = Num(190)
    /\ lastInv.value = <<Num(-50), Num(0)>>

\* C5: a callback computes with the viewport width of the call that pushed
\* it, whatever window.innerWidth is when it runs (400 or more included),
\* and no step removes or changes an entry of config.modifiers.
C5_UsesWidthAtCallTime ==
    /\ [][(/\ InvokeStep
           /\ lastInv'.outcome = "returned"
           /\ IsNumber(lastInv'.offsetLeft)) =>
             lastInv'.value = Expected(CallWidth(lastInv'.fn),
                                       lastInv'.offsetLeft.n,
                                       lastInv'.state.popper.width.n)]_vars
    /\ [][\A c \in ConfigIds :
             /\ Len(modifiers'[c]) >= Len(modifiers[c])
             /\ SubSeq(modifiers'[c], 1, Len(modifiers[c])) = modifiers[c]]_vars

C5_Witness ==
    /\ innerWidth >= 400
    /\ lastInv.outcome = "returned"
    /\ CallWidth(lastInv.fn) = 300
    /\ lastInv.offsetLeft = Num(100)
    /\ lastInv.state.popper.width = Num(250)
    /\ lastInv.value = <<Num(-60), Num(0)>>
    /\ ClosureOf(lastInv.fn).windowWidth = 300

\* C6 as stated: two successive runs of the same callback with the same
\* layout state return the same thing, and a run changes nothing else.
C6_SameLayoutStateSameOutput ==
    /\ [][(/\ Invoked /\ InvokeStep
           /\ lastInv'.fn = lastInv.fn
           /\ lastInv'.state = lastInv.state) =>
             (lastInv'.outcome = lastInv.outcome /\ lastInv'.value = lastInv.value)]_vars
    /\ [][InvokeStep =>
             UNCHANGED <<innerWidth, offsetLeft, modifiers, original,
                         narrowCalls, lastCall>>]_vars

\* C6 amended: two successive runs of the same callback with the same
\* layout state and the same offsetLeft of the element return the same
\* thing, and a run changes neither the config, its modifiers, the layout
\* state, the window nor the element.
C6_SameInputsSameOutput ==
    /\ [][(/\ Invoked /\ InvokeStep
           /\ lastInv'.fn = lastInv.fn
           /\ lastInv'.state = lastInv.state
           /\ lastInv'.offsetLeft = lastInv.offsetLeft) =>
             (lastInv'.outcome = lastInv.outcome /\ lastInv'.value = lastInv.value)]_vars
    /\ [][InvokeStep =>
             /\ lastInv'.state \in LayoutStates
             /\ UNCHANGED <<innerWidth, offsetLeft, modifiers, original,
                            narrowCalls, lastCall>>]_vars

C6_Witness ==
    /\ Called /\ lastCall.innerWidth = 400
    /\ lastInv.outcome = "returned"
    /\ lastInv.fn = <<"c1", 2>>
    /\ lastInv.value = <<Num(-110), Num(0)>>
    /\ Len(modifiers["c1"]) = 2
    /\ modifiers["c1"] = lastCall.before

\* C7: the calculator returns the object it was passed, on both branches,
\* and an entry it appends is in that object's own modifiers.
C7_ReturnsSameObject ==
    Called =>
        /\ lastCall.result = lastCall.config
        /\ (lastCall.innerWidth < 400 =>
               /\ Len(modifiers[lastCall.result]) = Len(lastCall.before) + 1
               /\ modifiers[lastCall.result][Len(lastCall.before) + 1].name = "offset")

C7_Witness ==
    /\ Called
    /\ lastCall.result = "c1"
    /\ lastCall.innerWidth = 300
    /\ lastCall.before = <<>>
    /\ Len(modifiers[lastCall.result]) = 1

\* C8 as stated: when the element's offsetLeft is undefined or NaN, the
\* x-component the callback returns is NaN.
C8_NaNPropagates ==
    (lastInv.outcome = "returned" /\ ~IsNumber(lastInv.offsetLeft)) =>
        lastInv.value[1] = NaN

\* C8 amended: when the element's offsetLeft is undefined or NaN, the
\* callback returns [0, 0]: rightOverflow is NaN, NaN < 0 is false, and the
\* conditional takes its 0 branch.
C8_NaNGivesZero ==
    (lastInv.outcome = "returned" /\ ~IsNumber(lastInv.offsetLeft)) =>
        lastInv.value = <<Num(0), Num(0)>>

C8_Witness ==
    /\ lastInv.outcome = "returned"
    /\ lastInv.offsetLeft = Undefined
    /\ ClosureOf(lastInv.fn).windowWidth = 300
    /\ lastInv.state.popper.width = Num(250)
    /\ lastInv.value = <<Num(0), Num(0)>>

\* C9: neither a calculator call nor a run of a callback it pushed ends in
\* an error, a host without trigger element included.
C9_NoException ==
    /\ lastCall.result # "TypeError"
    /\ lastInv.outcome # "TypeError"

\* C10: config.modifiers is the original list followed by one "offset"
\* entry per call made below 400, in call order, each computing with the
\* width of its own call.
C10_OneEntryPerNarrowCall ==
    \A c \in ConfigIds :
        LET n == Len(original[c])
        IN  /\ Len(modifiers[c]) = n + Len(narrowCalls[c])
            /\ SubSeq(modifiers[c], 1, n) = original[c]
            /\ \A k \in 1..Len(narrowCalls[c]) :
                  /\ modifiers[c][n + k].name = "offset"
                  /\ modifiers[c][n + k].options.offset.windowWidth
                        = narrowCalls[c][k]

C10_Witness ==
    /\ original["c1"] = <<OtherModifier>>
    /\ narrowCalls["c1"] = <<399, 300>>
    /\ Len(modifiers["c1"]) = 3
    /\ modifiers["c1"][2].options.offset.windowWidth = 399
    /\ modifiers["c1"][3].options.offset.windowWidth = 300

====
